---- MODULE Spec2Model ----
(***************************************************************************)
(* Model of resume_parser.py: the extract -> parse -> render pipeline of   *)
(* the __main__ block, the Mapper (parse_content) and the Renderer         *)
(* (create_formatted_docx, _build_skill_matrix).                           *)
(*                                                                         *)
(* Text is a sequence of atoms.  An atom is one character, or the word     *)
(* "json" / a field name taken as one indivisible chunk of letters (no     *)
(* atom is a proper piece of the word "json" or holds a backtick, so       *)
(* str.replace on the atoms is str.replace on the characters).             *)
(*                                                                         *)
(* A Python value is a tagged record [k |-> kind, v |-> payload]:          *)
(*   "str"  v is the text            "arr"  v is the sequence of values    *)
(*   "obj"  v is the dict, a function from key texts to values             *)
(*   "none" v is <<>>                                                      *)
(***************************************************************************)
EXTENDS Integers, Sequences, FiniteSets, TLC

VARIABLES
    pc,              \* position of the __main__ block (or of a direct call)
    GEMINI_API_KEY,  \* os.environ.get("GEMINI_API_KEY"): None when unset
    extracted,       \* result of extract_text
    body,            \* what the service put between its formatting markers
    response_text,   \* the accumulated service response inside parse_content
    cleaned_response,\* the response after the two strip/replace lines
    parsed_data,     \* result of parse_content
    safe_name,       \* the output file name stem
    doc,             \* the blocks of the document built by create_formatted_docx
    files,           \* names of the files written so far
    calls,           \* the pipeline functions called so far, in order
    printed          \* the diagnostics printed so far, in order

vars == <<pc, GEMINI_API_KEY, extracted, body, response_text, cleaned_response,
          parsed_data, safe_name, doc, files, calls, printed>>

-----------------------------------------------------------------------------
(* Python values *)

None == [k |-> "none", v |-> <<>>]

Str(s) == [k |-> "str", v |-> s]

Arr(s) == [k |-> "arr", v |-> s]

Obj(f) == [k |-> "obj", v |-> f]

EmptyDict == Obj(<<>>)

\* bool(x) of a Python value
Truthy(x) ==
    CASE x.k = "obj" -> DOMAIN x.v # {}
      [] x.k = "none" -> FALSE
      [] OTHER -> Len(x.v) > 0

\* d.get(key, default) of a dict d
dict_get(d, key, default) ==
    IF key \in DOMAIN d.v THEN d.v[key] ELSE default

-----------------------------------------------------------------------------
(* str methods *)

Whitespace == {" ", "\n"}

\* s without its first n atoms
Drop(s, n) == SubSeq(s, n + 1, Len(s))

RECURSIVE LStrip(_)
LStrip(s) ==
    IF s # <<>> /\ Head(s) \in Whitespace THEN LStrip(Tail(s)) ELSE s

RECURSIVE RStrip(_)
RStrip(s) ==
    IF s # <<>> /\ s[Len(s)] \in Whitespace
    THEN RStrip(SubSeq(s, 1, Len(s) - 1))
    ELSE s

\* str.strip()
Strip(s) == RStrip(LStrip(s))

\* the positions of s where old occurs
Occurrences(s, old) ==
    {i \in 1..(Len(s) - Len(old) + 1) : SubSeq(s, i, i + Len(old) - 1) = old}

\* str.replace(old, ""): the non-overlapping occurrences, leftmost first
RECURSIVE Replace(_, _)
Replace(s, old) ==
    IF Occurrences(s, old) = {} THEN s
    ELSE LET i == CHOOSE m \in Occurrences(s, old) :
                      \A n \in Occurrences(s, old) : m <= n
         IN  SubSeq(s, 1, i - 1) \o Replace(Drop(s, i + Len(old) - 1), old)

\* a string may not hold the backtick character: the atom "BACKTICK" stands for it
BackTick == "BACKTICK"

Fence == <<BackTick, BackTick, BackTick>>

FenceJson == Fence \o <<"json">>

\* the clean-up removing the bare fence before the "json" fence
CleanResponse_FenceFirst(text) ==
    Strip(Replace(Replace(Strip(text), Fence), FenceJson))

\* The two clean-up lines of parse_content
CleanResponse(text) ==
    Strip(Replace(Replace(Strip(text), FenceJson), Fence))

-----------------------------------------------------------------------------
(* json.loads on the JSON the atoms can spell: strings, arrays, objects *)

Quote == "\""

Fail == [ok |-> FALSE, val |-> None, next |-> 0]

RECURSIVE SkipWs(_, _)
SkipWs(s, i) ==
    IF i <= Len(s) /\ s[i] \in Whitespace THEN SkipWs(s, i + 1) ELSE i

\* index of the quote closing the string opened before i, 0 if there is none
\* or a control character (the newline) comes first
RECURSIVE ClosingQuote(_, _)
ClosingQuote(s, i) ==
    IF i > Len(s) \/ s[i] = "\n" THEN 0
    ELSE IF s[i] = Quote THEN i
    ELSE ClosingQuote(s, i + 1)

\* a string literal at s[i]
ParseString(s, i) ==
    IF i > Len(s) \/ s[i] # Quote THEN Fail
    ELSE LET j == ClosingQuote(s, i + 1)
         IN  IF j = 0 THEN Fail
             ELSE [ok |-> TRUE, val |-> Str(SubSeq(s, i + 1, j - 1)), next |-> j + 1]

RECURSIVE ParseValue(_, _)
RECURSIVE ParseElems(_, _, _)
RECURSIVE ParseMembers(_, _, _)

\* the elements of an array after "[" or after a ",": acc holds those read
ParseElems(s, i, acc) ==
    LET e == ParseValue(s, SkipWs(s, i))
        j == SkipWs(s, e.next)
    IN  IF ~e.ok \/ j > Len(s) THEN Fail
        ELSE IF s[j] = "," THEN ParseElems(s, j + 1, Append(acc, e.val))
        ELSE IF s[j] = "]"
             THEN [ok |-> TRUE, val |-> Arr(Append(acc, e.val)), next |-> j + 1]
        ELSE Fail

\* the members of an object after "{" or after a ",": a later key overrides
ParseMembers(s, i, acc) ==
    LET key == ParseString(s, SkipWs(s, i))
        c == SkipWs(s, key.next)
    IN  IF ~key.ok \/ c > Len(s) \/ s[c] # ":" THEN Fail
        ELSE LET e == ParseValue(s, SkipWs(s, c + 1))
                 j == SkipWs(s, e.next)
                 d == (key.val.v :> e.val) @@ acc
             IN  IF ~e.ok \/ j > Len(s) THEN Fail
                 ELSE IF s[j] = "," THEN ParseMembers(s, j + 1, d)
                 ELSE IF s[j] = "}"
                      THEN [ok |-> TRUE, val |-> Obj(d), next |-> j + 1]
                 ELSE Fail

ParseValue(s, i) ==
    IF i > Len(s) THEN Fail
    ELSE IF s[i] = Quote THEN ParseString(s, i)
    ELSE IF s[i] = "["
         THEN LET j == SkipWs(s, i + 1)
              IN  IF j <= Len(s) /\ s[j] = "]"
                  THEN [ok |-> TRUE, val |-> Arr(<<>>), next |-> j + 1]
                  ELSE ParseElems(s, i + 1, <<>>)
    ELSE IF s[i] = "{"
         THEN LET j == SkipWs(s, i + 1)
              IN  IF j <= Len(s) /\ s[j] = "}"
                  THEN [ok |-> TRUE, val |-> EmptyDict, next |-> j + 1]
                  ELSE ParseMembers(s, i + 1, <<>>)
    ELSE Fail

\* json.loads(text): ok is FALSE where it raises JSONDecodeError
json_loads(text) ==
    LET r == ParseValue(text, SkipWs(text, 1))
    IN  IF r.ok /\ SkipWs(text, r.next) > Len(text)
        THEN [ok |-> TRUE, val |-> r.val]
        ELSE [ok |-> FALSE, val |-> None]

-----------------------------------------------------------------------------
(* string.capwords and the file-name sanitizer *)

LowerCase == <<"a", "b", "c", "h", "i", "j", "l", "n", "o", "p", "q", "u">>

UpperCase == <<"A", "B", "C", "H", "I", "J", "L", "N", "O", "P", "Q", "U">>

Digits == {"0", "1"}

IndexIn(seq, c) == CHOOSE i \in 1..Len(seq) : seq[i] = c

InSeq(seq, c) == \E i \in 1..Len(seq) : seq[i] = c

\* str.upper() / str.lower() of one character
Upper(c) == IF InSeq(LowerCase, c) THEN UpperCase[IndexIn(LowerCase, c)] ELSE c

Lower(c) == IF InSeq(UpperCase, c) THEN LowerCase[IndexIn(UpperCase, c)] ELSE c

\* str.capitalize(): first character upper-cased, the rest lower-cased
Capitalize(w) ==
    [i \in 1..Len(w) |-> IF i = 1 THEN Upper(w[i]) ELSE Lower(w[i])]

\* number of leading non-whitespace atoms
RECURSIVE WordLen(_)
WordLen(s) ==
    IF s = <<>> \/ Head(s) \in Whitespace THEN 0 ELSE 1 + WordLen(Tail(s))

\* str.split(): the maximal runs of non-whitespace
RECURSIVE Split(_)
Split(s) ==
    LET t == LStrip(s)
    IN  IF t = <<>> THEN <<>>
        ELSE <<SubSeq(t, 1, WordLen(t))>> \o Split(Drop(t, WordLen(t)))

\* " ".join(words)
RECURSIVE Join(_)
Join(words) ==
    IF words = <<>> THEN <<>>
    ELSE IF Len(words) = 1 THEN words[1]
    ELSE words[1] \o <<" ">> \o Join(Tail(words))

\* str.capitalize() of the whole text in place of string.capwords
capwords_WholeText(s) == Capitalize(s)

\* string.capwords(s)
capwords(s) ==
    LET words == Split(s)
    IN  Join([i \in 1..Len(words) |-> Capitalize(words[i])])

\* the class [A-Za-z0-9]
IsAlnum(c) == InSeq(LowerCase, c) \/ InSeq(UpperCase, c) \/ c \in Digits

\* re.sub(r'[^A-Za-z0-9]+', '_', s): each maximal run outside the class
\* becomes one "_"
RECURSIVE re_sub(_)
re_sub(s) ==
    IF s = <<>> THEN <<>>
    ELSE IF IsAlnum(Head(s)) THEN <<Head(s)>> \o re_sub(Tail(s))
    ELSE IF Len(s) > 1 /\ ~IsAlnum(s[2]) THEN re_sub(Tail(s))
    ELSE <<"_">> \o re_sub(Tail(s))

-----------------------------------------------------------------------------
(* The Renderer.  A document is [footer |-> text, body |-> blocks]; a block  *)
(* is a paragraph, a table (header row plus data rows) or the logo table.   *)

\* dict key of a field name
Key(field) == <<field>>

EmptyStr == Str(<<>>)

\* a paragraph; text "" gives a paragraph with no run
Para(text, align, style, size, bold, underline) ==
    [kind |-> "para", text |-> text, align |-> align, style |-> style,
     size |-> size, bold |-> bold, underline |-> underline, rows |-> <<>>]

\* _add_section_heading(doc, text)
SectionHeading(text) == Para(<<text>>, "left", "heading", 14, TRUE, TRUE)

\* doc.add_paragraph(text, style='List Bullet') and its 12 pt run
Bullet(text) == Para(text, "default", "List Bullet", 12, FALSE, FALSE)

\* doc.add_paragraph(text) with a bold 12 pt run
BoldLine(text) == Para(text, "default", "Normal", 12, TRUE, FALSE)

\* doc.add_paragraph(text) with no font applied to its run
PlainLine(text) == Para(text, "default", "Normal", 0, FALSE, FALSE)

Table(rows) ==
    [kind |-> "table", text |-> <<"Area", "Years", "Latest 3 Clients Used", "Level">>,
     align |-> "default", style |-> "Table Grid", size |-> 12, bold |-> TRUE,
     underline |-> FALSE, rows |-> rows]

LogoTable ==
    [kind |-> "logo", text |-> <<>>, align |-> "right", style |-> "Normal",
     size |-> 0, bold |-> FALSE, underline |-> FALSE, rows |-> <<>>]

\* the row limit of the skill matrix
MaxSkillRows == 10

\* seq[:n]
Take(seq, n) == SubSeq(seq, 1, IF Len(seq) < n THEN Len(seq) ELSE n)

\* the rows of the table _build_skill_matrix adds; <<>> where it adds none
SkillMatrixSource(data) ==
    LET skills_matrix == dict_get(data, Key("skills_matrix"), Arr(<<>>))
        skills == dict_get(data, Key("skills"), None)
    IN  IF ~Truthy(skills_matrix) /\ Truthy(skills)
        THEN [i \in 1..Len(Take(skills.v, MaxSkillRows)) |->
                 Obj((Key("skills") :> skills.v[i])
                     @@ (Key("years_experience") :> EmptyStr)
                     @@ (Key("last_used") :> EmptyStr)
                     @@ (Key("proficiency") :> EmptyStr))]
        ELSE skills_matrix.v

SkillRow(skill) ==
    <<dict_get(skill, Key("skills"), EmptyStr).v,
      dict_get(skill, Key("years_experience"), EmptyStr).v,
      dict_get(skill, Key("last_used"), EmptyStr).v,
      dict_get(skill, Key("proficiency"), EmptyStr).v>>

\* _build_skill_matrix without the [:10] on the matrix
build_skill_matrix_NoLimit(data) ==
    LET skills_matrix == SkillMatrixSource(data)
    IN  IF skills_matrix = <<>> THEN <<>>
        ELSE <<Table([i \in 1..Len(skills_matrix) |-> SkillRow(skills_matrix[i])])>>

\* _build_skill_matrix(doc, parsed_data): the blocks it appends
build_skill_matrix(data) ==
    LET skills_matrix == Take(SkillMatrixSource(data), MaxSkillRows)
    IN  IF skills_matrix = <<>> THEN <<>>
        ELSE <<Table([i \in 1..Len(skills_matrix) |-> SkillRow(skills_matrix[i])])>>

\* concatenation of a sequence of block sequences
RECURSIVE Flatten(_)
Flatten(ss) == IF ss = <<>> THEN <<>> ELSE Head(ss) \o Flatten(Tail(ss))

Sep == <<" ", "-", " ">>

Field(d, field) == dict_get(d, Key(field), EmptyStr).v

\* the values of a list field, <<>> when the field is absent or empty
ListOf(data, field) == dict_get(data, Key(field), Arr(<<>>)).v

\* the contact lines without filter(None, ...)
ContactLines_NoFilter(data) ==
    LET contact_details == <<dict_get(data, Key("phone"), EmptyStr),
                             dict_get(data, Key("email"), EmptyStr),
                             dict_get(data, Key("linkedin"), EmptyStr)>>
    IN  [i \in 1..3 |-> Para(contact_details[i].v, "center", "Normal", 12, FALSE, FALSE)]

ContactLines(data) ==
    LET contact_details == <<dict_get(data, Key("phone"), EmptyStr),
                             dict_get(data, Key("email"), EmptyStr),
                             dict_get(data, Key("linkedin"), EmptyStr)>>
        kept == SelectSeq(contact_details, Truthy)
    IN  [i \in 1..Len(kept) |-> Para(kept[i].v, "center", "Normal", 12, FALSE, FALSE)]

NameLine(data) ==
    LET raw_name == Strip(dict_get(data, Key("name"), Str(<<"Name Not Found">>)).v)
    IN  Para(capwords(raw_name), "center", "Normal", 14, TRUE, FALSE)

\* the summary section without the test of the summary
SummarySection_Always(data) ==
    <<SectionHeading("Candidate Strengths"),
      Para(dict_get(data, Key("summary"), EmptyStr).v, "default", "Normal", 12, FALSE, FALSE)>>

SummarySection(data) ==
    IF Truthy(dict_get(data, Key("summary"), None))
    THEN <<SectionHeading("Candidate Strengths"),
           Para(data.v[Key("summary")].v, "default", "Normal", 12, FALSE, FALSE)>>
    ELSE <<>>

CertificationsSection(data) ==
    LET certs == ListOf(data, "certifications")
    IN  IF certs = <<>> THEN <<>>
        ELSE <<SectionHeading("Certifications")>> \o
             [i \in 1..Len(certs) |->
                 Bullet(Field(certs[i], "name") \o Sep \o Field(certs[i], "issuer"))]

EducationSection(data) ==
    LET edus == ListOf(data, "education")
    IN  IF edus = <<>> THEN <<>>
        ELSE <<SectionHeading("Education")>> \o
             [i \in 1..Len(edus) |->
                 Bullet(Field(edus[i], "degree") \o <<" ", "in", " ">>
                        \o Field(edus[i], "major") \o Sep
                        \o Field(edus[i], "university"))]

\* one bullet per point
Bullets(points) == [i \in 1..Len(points) |-> Bullet(points[i].v)]

ExperienceEntry(exp) ==
    <<BoldLine(Field(exp, "job_title") \o Sep \o Field(exp, "company")
               \o <<" ", "(">> \o Field(exp, "start_date") \o Sep
               \o Field(exp, "end_date") \o <<")">>)>>
    \o Bullets(ListOf(exp, "Description"))

ExperienceSection(data) ==
    LET exps == ListOf(data, "experience")
    IN  IF exps = <<>> THEN <<>>
        ELSE <<SectionHeading("Professional Experience")>> \o
             Flatten([i \in 1..Len(exps) |-> ExperienceEntry(exps[i])])

ProjectEntry(proj) ==
    <<BoldLine(Field(proj, "project_name") \o Sep \o Field(proj, "client")
               \o <<" ", "(">> \o Field(proj, "date_range") \o <<")">>)>>
    \o Bullets(ListOf(proj, "content"))
    \o (IF Truthy(dict_get(proj, Key("technologies"), None))
        THEN <<PlainLine(<<"Technologies: ">> \o Field(proj, "technologies"))>>
        ELSE <<>>)
    \o (IF Truthy(dict_get(proj, Key("environment"), None))
        THEN <<PlainLine(<<"Environment: ">> \o Field(proj, "environment"))>>
        ELSE <<>>)

ProjectsSection(data) ==
    LET projs == ListOf(data, "projects")
    IN  IF projs = <<>> THEN <<>>
        ELSE <<SectionHeading("Projects")>> \o
             Flatten([i \in 1..Len(projs) |-> ProjectEntry(projs[i])])

FooterText == <<"www.quadranttechnologies.com 5020, 148th Avenue NE, Suite-250, Redmond, WA-98052">>

NoDocument == [footer |-> <<>>, body |-> <<>>]

\* the document create_formatted_docx builds before it saves it
create_formatted_docx(data, logo_exists) ==
    [footer |-> FooterText,
     body |-> (IF logo_exists THEN <<LogoTable>> ELSE <<>>)
              \o <<NameLine(data)>>
              \o ContactLines(data)
              \o SummarySection(data)
              \o <<SectionHeading("Skill Matrix")>>
              \o build_skill_matrix(data)
              \o CertificationsSection(data)
              \o EducationSection(data)
              \o ExperienceSection(data)
              \o ProjectsSection(data)]

\* para.runs[0] / bullet.runs[0] raises IndexError on a paragraph made from
\* the text "": only a bullet can have it (every other styled line holds a
\* literal or is guarded by the truth of its text)
RenderRaises(data) ==
    \E b \in 1..Len(create_formatted_docx(data, FALSE).body) :
        LET blk == create_formatted_docx(data, FALSE).body[b]
        IN  blk.kind = "para" /\ blk.style = "List Bullet" /\ blk.text = <<>>

-----------------------------------------------------------------------------
(* The canonical schema (json_schema of parse_content) *)

ScalarFields == {"name", "email", "phone", "linkedin", "github", "summary"}

ListFields == {"skills", "skills_matrix", "certifications", "education",
               "experience", "projects", "awards"}

SchemaFields == ScalarFields \cup ListFields

\* the record with every declared field at its default
AllDefaults ==
    Obj([key \in {Key(f) : f \in SchemaFields} |->
            IF key[1] \in ScalarFields THEN EmptyStr ELSE Arr(<<>>)])

-----------------------------------------------------------------------------
(* extract_text *)

\* exists: os.path.exists(file_path); file_extension: the lower-cased
\* extension; raises: the library raised while reading; text: the text read
extract_text(exists, file_extension, raises, text) ==
    IF ~exists THEN None
    ELSE IF file_extension \notin {".pdf", ".docx"} THEN None
    ELSE IF raises THEN None
    ELSE Str(Strip(text))

-----------------------------------------------------------------------------
(* parse_content *)

DebugArtifact == <<"parsed_resume.json">>

JsonError == <<"JSON parsing error", "JSONDecodeError">>

ApiError(e) == <<"Error calling Gemini API", e>>

\* parse_content(text, api_key) with the service streaming `response` (and
\* raising after it when service_raises) and the debug-artifact write ending
\* as `write`: "ok", "open_fails" (open raises OSError) or "dump_fails"
\* (json.dump raises OSError after the file was created).
\* raised: the exception that leaves the function, "" when it returns.
parse_content(api_key, response, service_raises, write) ==
    LET cleaned == CleanResponse(response)
        loaded == json_loads(cleaned)
        base == [raised |-> "", ret |-> EmptyDict, response_text |-> response,
                 cleaned_response |-> <<>>, written |-> {}, printed |-> <<>>]
    IN  IF ~Truthy(api_key)
        THEN [base EXCEPT !.raised = "ValueError", !.ret = None, !.response_text = <<>>]
        ELSE IF service_raises
        THEN [base EXCEPT !.printed = <<ApiError("ServiceError")>>]
        ELSE IF ~loaded.ok
        THEN [base EXCEPT !.cleaned_response = cleaned, !.printed = <<JsonError>>]
        ELSE IF write = "open_fails"
        THEN [base EXCEPT !.cleaned_response = cleaned,
                          !.printed = <<ApiError("OSError")>>]
        ELSE IF write = "dump_fails"
        THEN [base EXCEPT !.cleaned_response = cleaned, !.written = {DebugArtifact},
                          !.printed = <<ApiError("OSError")>>]
        ELSE [base EXCEPT !.cleaned_response = cleaned, !.written = {DebugArtifact},
                          !.ret = loaded.val]

-----------------------------------------------------------------------------
(* The service's responses *)

\* the keys the model's records use, in the order the service writes them
KeyOrder ==
    <<"name", "email", "phone", "linkedin", "github", "skills", "skills_matrix",
      "years_experience", "last_used", "proficiency", "certifications", "issuer",
      "summary", "education", "degree", "major", "university", "experience",
      "job_title", "company", "start_date", "end_date", "Description", "projects",
      "project_name", "client", "date_range", "content", "technologies",
      "environment", "awards">>

RECURSIVE JoinWith(_, _)
JoinWith(texts, sep) ==
    IF texts = <<>> THEN <<>>
    ELSE IF Len(texts) = 1 THEN texts[1]
    ELSE texts[1] \o sep \o JoinWith(Tail(texts), sep)

\* the JSON text of a value
RECURSIVE json_text(_)
json_text(x) ==
    CASE x.k = "str" -> <<Quote>> \o x.v \o <<Quote>>
      [] x.k = "arr" ->
            <<"[">> \o JoinWith([i \in 1..Len(x.v) |-> json_text(x.v[i])], <<",">>)
            \o <<"]">>
      [] x.k = "obj" ->
            LET InDict(f) == Key(f) \in DOMAIN x.v
                keys == SelectSeq(KeyOrder, InDict)
            IN  <<"{">> \o
                JoinWith([i \in 1..Len(keys) |->
                             <<Quote, keys[i], Quote, ":">> \o json_text(x.v[Key(keys[i])])],
                         <<",", " ">>)
                \o <<"}">>

Wrappers == {"none", "json fence", "plain fence", "tight json fence"}

\* the body inside the formatting markers of a fenced code block
Wrap(wrapper, text) ==
    CASE wrapper = "none" -> text
      [] wrapper = "json fence" -> FenceJson \o <<"\n">> \o text \o <<"\n">> \o Fence
      [] wrapper = "plain fence" -> Fence \o <<"\n">> \o text \o <<"\n">> \o Fence \o <<"\n">>
      [] wrapper = "tight json fence" -> FenceJson \o text \o Fence

-----------------------------------------------------------------------------
(* The records and responses the pipeline is run on *)

FullRecord ==
    Obj((Key("name") :> Str(<<"j", "o", " ", "q", ".", " ", "p", "u", "b">>))
        @@ (Key("email") :> Str(<<"a", "@", "b", ".", "c">>))
        @@ (Key("phone") :> Str(<<"1", "0">>))
        @@ (Key("linkedin") :> EmptyStr)
        @@ (Key("github") :> EmptyStr)
        @@ (Key("skills") :> Arr(<<Str(<<"p">>), Str(<<"c">>)>>))
        @@ (Key("skills_matrix") :> Arr(<<>>))
        @@ (Key("certifications") :>
                Arr(<<Obj((Key("name") :> Str(<<"c", "1">>))
                          @@ (Key("issuer") :> Str(<<"i">>)))>>))
        @@ (Key("summary") :> Str(<<"a", " ", "b">>))
        @@ (Key("education") :> Arr(<<>>))
        @@ (Key("experience") :>
                Arr(<<Obj((Key("job_title") :> Str(<<"j">>))
                          @@ (Key("company") :> Str(<<"c">>))
                          @@ (Key("Description") :> Arr(<<Str(<<"a">>)>>)))>>))
        @@ (Key("projects") :> Arr(<<>>))
        @@ (Key("awards") :> Arr(<<>>)))

\* a summary that quotes a fenced code block
FencedSummaryRecord ==
    Obj((Key("name") :> Str(<<"a">>))
        @@ (Key("summary") :> Str(<<"a">> \o Fence \o <<"b">> \o Fence)))

PipelineRecords ==
    { FullRecord,
      AllDefaults,
      EmptyDict,
      FencedSummaryRecord,
      Obj(Key("name") :> Str(<<"a", "l">>)),
      Obj(Key("name") :> EmptyStr),
      Obj((Key("email") :> Str(<<"a", "@", "b">>))
          @@ (Key("summary") :> Str(<<"a">>))),
      Obj((Key("name") :> Str(<<"b">>))
          @@ (Key("experience") :>
                  Arr(<<Obj(Key("Description") :> Arr(<<EmptyStr>>))>>))) }

\* texts that are not JSON, and JSON that is not an object
OtherBodies ==
    { <<>>, <<"a">>, <<"{">>, <<"{", Quote, "name", Quote, ":">>,
      <<"[", "]">>, <<Quote, "a", Quote>> }

Bodies == {json_text(r) : r \in PipelineRecords} \cup OtherBodies

WriteOutcomes == {"ok", "open_fails", "dump_fails"}

-----------------------------------------------------------------------------
(* The __main__ block *)

\* the credential check without its exit(1)
Main_CheckKey_NoExit ==
    /\ pc = "start"
    /\ pc' = "extract"
    /\ printed' = IF ~Truthy(GEMINI_API_KEY)
                  THEN Append(printed, <<"Gemini API key not found", "">>)
                  ELSE printed
    /\ UNCHANGED <<GEMINI_API_KEY, extracted, body, response_text, cleaned_response,
                   parsed_data, safe_name, doc, files, calls>>

\* lines 420-425: the credential check
Main_CheckKey ==
    /\ pc = "start"
    /\ IF ~Truthy(GEMINI_API_KEY)
       THEN /\ pc' = "exit"
            /\ printed' = Append(printed, <<"Gemini API key not found", "">>)
       ELSE /\ pc' = "extract"
            /\ UNCHANGED printed
    /\ UNCHANGED <<GEMINI_API_KEY, extracted, body, response_text, cleaned_response,
                   parsed_data, safe_name, doc, files, calls>>

\* lines 427-432 and 450-451: extract_text and the test of its result
Main_Extract ==
    /\ pc = "extract"
    /\ \E exists \in BOOLEAN, ext \in {".pdf", ".docx", ".txt"}, raises \in BOOLEAN,
          text \in {<<>>, <<" ", "\n">>, <<"a", " ", "b", "\n">>} :
          /\ extracted' = extract_text(exists, ext, raises, text)
          /\ calls' = Append(calls, "extract_text")
          /\ IF Truthy(extracted')
             THEN pc' = "parse" /\ UNCHANGED printed
             ELSE /\ pc' = "no_text"
                  /\ printed' = Append(printed, <<"No text extracted.", "">>)
    /\ UNCHANGED <<GEMINI_API_KEY, body, response_text, cleaned_response,
                   parsed_data, safe_name, doc, files>>

\* line 435: parsed_data = parse_content(extracted, GEMINI_API_KEY), the
\* service answering with one of `bodies` inside one of the wrappers
ParseStep(bodies) ==
    \E b \in bodies, wrapper \in Wrappers, service_raises \in BOOLEAN,
       write \in WriteOutcomes :
        LET r == parse_content(GEMINI_API_KEY, Wrap(wrapper, b), service_raises, write)
        IN  /\ body' = b
            /\ response_text' = r.response_text
            /\ cleaned_response' = r.cleaned_response
            /\ calls' = Append(calls, "parse_content")
            /\ printed' = printed \o r.printed
            /\ files' = files \cup r.written
            /\ IF r.raised # ""
               THEN pc' = "crashed" /\ UNCHANGED parsed_data
               ELSE pc' = "name" /\ parsed_data' = r.ret
            /\ UNCHANGED <<GEMINI_API_KEY, extracted, safe_name, doc>>

Main_Parse == pc = "parse" /\ ParseStep(Bodies)

\* lines 437-447: print the record, then index parsed_data['name'] for the
\* file name (KeyError without the key, TypeError on a list or a string,
\* AttributeError in capwords on a name that is not a string)
Main_SafeName ==
    /\ pc = "name"
    /\ IF /\ parsed_data.k = "obj"
          /\ Key("name") \in DOMAIN parsed_data.v
          /\ parsed_data.v[Key("name")].k = "str"
       THEN /\ safe_name' = re_sub(capwords(parsed_data.v[Key("name")].v))
            /\ pc' = "render"
       ELSE /\ pc' = "crashed"
            /\ UNCHANGED safe_name
    /\ UNCHANGED <<GEMINI_API_KEY, extracted, body, response_text, cleaned_response,
                   parsed_data, doc, files, calls, printed>>

OutputPath(stem) == <<"YOUR_FILE_PATH\\">> \o stem \o <<"_resume.docx">>

\* create_formatted_docx(parsed_data, output_path): build, then doc.save
RenderCall(returned, raised) ==
    \E logo_exists \in BOOLEAN, save_ok \in BOOLEAN :
        /\ calls' = Append(calls, "create_formatted_docx")
        /\ IF RenderRaises(parsed_data)
           THEN pc' = raised /\ UNCHANGED <<doc, files, printed>>
           ELSE /\ pc' = returned
                /\ doc' = create_formatted_docx(parsed_data, logo_exists)
                /\ files' = IF save_ok THEN files \cup {OutputPath(safe_name)} ELSE files
                /\ printed' = Append(printed,
                                 IF save_ok THEN <<"Successfully generated", "">>
                                 ELSE <<"Error saving DOCX file", "OSError">>)
        /\ UNCHANGED <<GEMINI_API_KEY, extracted, body, response_text,
                       cleaned_response, parsed_data, safe_name>>

\* line 448
Main_Render == pc = "render" /\ RenderCall("done", "crashed")

Init == /\ pc = "start"
        /\ GEMINI_API_KEY \in {None, EmptyStr, Str(<<"k">>)}
        /\ extracted = None
        /\ body = <<>>
        /\ response_text = <<>>
        /\ cleaned_response = <<>>
        /\ parsed_data = None
        /\ safe_name = <<>>
        /\ doc = NoDocument
        /\ files = {}
        /\ calls = <<>>
        /\ printed = <<>>

Next == \/ Main_CheckKey
        \/ Main_Extract
        \/ Main_Parse
        \/ Main_SafeName
        \/ Main_Render

Spec == Init /\ [][Next]_vars

-----------------------------------------------------------------------------
(* Claims about the pipeline, checked under Spec *)

Printed(message) == \E i \in 1..Len(printed) : printed[i] = message

Called(function) == \E i \in 1..Len(calls) : calls[i] = function

\* the service answered and the debug artifact was written
NoFailure == ~Printed(ApiError("ServiceError")) /\ ~Printed(ApiError("OSError"))

\* parse_content has returned
AfterParse == pc \in {"name", "render", "done"} \/ (pc = "crashed" /\ Called("parse_content"))

\* the Mapper degraded to the empty record on an unparseable response or a
\* failed service call
Degraded ==
    /\ AfterParse
    /\ Printed(JsonError) \/ Printed(ApiError("ServiceError"))

\* C1: whenever the Mapper degrades to an empty record (response not
\* parseable, or the service call raised), the run does not abort and goes on
\* to call the Renderer with the empty record.
C1_DegradedRunReachesRenderer ==
    Degraded => /\ parsed_data = EmptyDict
                /\ pc # "crashed"
                /\ pc = "done" => Called("create_formatted_docx")

\* C2: for a response that parses as JSON, parse_content returns the parsed
\* record whether the debug-artifact write succeeds or fails.
C2_WriteFailureKeepsRecord ==
    (/\ AfterParse
     /\ ~Printed(ApiError("ServiceError"))
     /\ json_loads(CleanResponse(response_text)).ok)
    => parsed_data = json_loads(CleanResponse(response_text)).val

\* C3: every record parse_content returns holds every declared field of the
\* schema, none of them null.
C3_EveryFieldPresent ==
    (AfterParse /\ NoFailure /\ ~Printed(JsonError) /\ parsed_data.k = "obj") =>
        /\ \A f \in SchemaFields :
              /\ Key(f) \in DOMAIN parsed_data.v
              /\ parsed_data.v[Key(f)].k # "none"

\* C4: on a response that is not valid JSON, parse_content returns (it does
\* not raise) a record equal to the all-defaults record and writes no debug
\* artifact.
C4_InvalidJsonGivesAllDefaults ==
    (Called("parse_content") /\ Printed(JsonError)) =>
        /\ AfterParse
        /\ parsed_data = AllDefaults
        /\ DebugArtifact \notin files

\* C5: with the credential missing the run ends before extract_text is
\* called; with null or empty extracted text it ends without calling the
\* Mapper or the Renderer; in both cases no file is written and no document
\* is built.
C5_PreconditionFailuresProduceNothing ==
    /\ ~Truthy(GEMINI_API_KEY) =>
          /\ pc \in {"start", "exit"}
          /\ calls = <<>>
          /\ files = {} /\ doc = NoDocument
    /\ (Called("extract_text") /\ ~Truthy(extracted)) =>
          /\ pc = "no_text"
          /\ calls = <<"extract_text">>
          /\ files = {} /\ doc = NoDocument

C5_Witness_NoText ==
    pc = "no_text" /\ extracted = EmptyStr /\ Truthy(GEMINI_API_KEY)

-----------------------------------------------------------------------------
(* The clean-up and parse of parse_content on every short response *)

\* longest body enumerated
MaxBodyLen == 5

BodyAtoms == {BackTick, "json", "\n", Quote, "a"}

ShortTexts == UNION {[1..n -> BodyAtoms] : n \in 0..MaxBodyLen}

CleanBodies ==
    ShortTexts \cup {<<"{", "}">>, <<"[", "]">>, json_text(FencedSummaryRecord),
                     json_text(Obj(Key("name") :> Str(<<"a", "l">>)))}

\* parse_content called with a credential and extracted text in hand
InitClean ==
    /\ pc = "parse"
    /\ GEMINI_API_KEY = Str(<<"k">>)
    /\ extracted = Str(<<"a", " ", "b">>)
    /\ body = <<>>
    /\ response_text = <<>>
    /\ cleaned_response = <<>>
    /\ parsed_data = None
    /\ safe_name = <<>>
    /\ doc = NoDocument
    /\ files = {}
    /\ calls = <<"extract_text">>
    /\ printed = <<>>

Clean_Parse == pc = "parse" /\ ParseStep(CleanBodies)

SpecClean == InitClean /\ [][Clean_Parse]_vars

\* the record the Mapper returns for a response, service and write succeeding
MapperRecord(response) == parse_content(Str(<<"k">>), response, FALSE, "ok").ret

\* C6: a response that is a valid JSON document J inside fenced code-block
\* markers is parsed successfully and gives the record the unwrapped J gives;
\* cleaning the cleaned response again changes nothing.
C6_FencedJsonParsesLikeUnwrapped ==
    (pc = "name" /\ ~Printed(ApiError("ServiceError"))) =>
        /\ CleanResponse(cleaned_response) = cleaned_response
        /\ (json_loads(body).ok /\ NoFailure) =>
              /\ ~Printed(JsonError)
              /\ parsed_data = MapperRecord(body)
              /\ json_loads(cleaned_response).ok

C6_Witness_FencedObject ==
    /\ pc = "name"
    /\ body = json_text(FencedSummaryRecord)
    /\ response_text = Wrap("json fence", body)
    /\ parsed_data.k = "obj"
    /\ DebugArtifact \in files

-----------------------------------------------------------------------------
(* The name line and the file name stem, on every short name *)

\* longest name enumerated
MaxNameLen == 4

NameAtoms == {"a", "B", "1", ".", "_", " "}

ExampleName == <<"j", "o", "h", "n", " ", "q", ".", " ", "p", "u", "b", "l", "i", "c">>

Names == UNION {[1..n -> NameAtoms] : n \in 0..MaxNameLen} \cup {ExampleName}

\* __main__ after parse_content returned a record with a name
InitName ==
    /\ pc = "name"
    /\ GEMINI_API_KEY = Str(<<"k">>)
    /\ extracted = Str(<<"a", " ", "b">>)
    /\ body = <<>>
    /\ response_text = <<>>
    /\ cleaned_response = <<>>
    /\ parsed_data \in {Obj(Key("name") :> Str(n)) : n \in Names}
    /\ safe_name = <<>>
    /\ doc = NoDocument
    /\ files = {DebugArtifact}
    /\ calls = <<"extract_text", "parse_content">>
    /\ printed = <<>>

SpecName == InitName /\ [][Main_SafeName \/ Main_Render]_vars

\* the text of the name line of the document: its centered 14 pt paragraph
ShownName ==
    LET IsNameLine(b) == b.kind = "para" /\ b.align = "center" /\ b.size = 14
    IN  SelectSeq(doc.body, IsNameLine)[1].text

\* s with every character outside [A-Za-z0-9] turned into "_" and only the
\* first character of each run of them kept
Collapse(s) ==
    LET kept == {i \in 1..Len(s) : IsAlnum(s[i]) \/ i = 1 \/ IsAlnum(s[i - 1])}
        Nth(n) == CHOOSE i \in kept : Cardinality({j \in kept : j <= i}) = n
    IN  [n \in 1..Cardinality(kept) |-> IF IsAlnum(s[Nth(n)]) THEN s[Nth(n)] ELSE "_"]

SameLetters(v, w) ==
    Len(v) = Len(w) /\ \A i \in 1..Len(v) : Lower(v[i]) = Lower(w[i])

\* C10: the name line shows the words of the name, each with its first letter
\* upper-cased whatever the input casing; the file name stem is the shown name
\* with each maximal run of non-alphanumeric characters replaced by one "_",
\* so it holds only [A-Za-z0-9_] and never two "_" in a row.
C10_NameCapitalizedAndStemSanitized ==
    pc = "done" =>
        LET name == parsed_data.v[Key("name")].v
            shown == Split(ShownName)
            given == Split(name)
        IN  /\ Len(shown) = Len(given)
            /\ \A w \in 1..Len(shown) :
                  /\ SameLetters(shown[w], given[w])
                  /\ shown[w][1] = Upper(given[w][1])
                  /\ ~InSeq(LowerCase, shown[w][1])
            /\ safe_name = Collapse(ShownName)
            /\ \A i \in 1..Len(safe_name) : IsAlnum(safe_name[i]) \/ safe_name[i] = "_"
            /\ \A i \in 1..(Len(safe_name) - 1) :
                  ~(safe_name[i] = "_" /\ safe_name[i + 1] = "_")
            /\ name = ExampleName =>
                  /\ ShownName = <<"J", "o", "h", "n", " ", "Q", ".", " ",
                                   "P", "u", "b", "l", "i", "c">>
                  /\ safe_name = <<"J", "o", "h", "n", "_", "Q", "_",
                                   "P", "u", "b", "l", "i", "c">>

C10_Witness_JohnQPublic ==
    /\ pc = "done"
    /\ parsed_data = Obj(Key("name") :> Str(ExampleName))
    /\ OutputPath(<<"J", "o", "h", "n", "_", "Q", "_", "P", "u", "b", "l", "i", "c">>)
           \in files

-----------------------------------------------------------------------------
(* create_formatted_docx called on records of the canonical schema *)

\* marks a field the record does not hold
Absent == [k |-> "absent", v |-> <<>>]

\* the dict of the fields of f that are not Absent
MakeRecord(f) ==
    Obj([key \in {Key(x) : x \in {y \in DOMAIN f : f[y].k # "absent"}} |-> f[key[1]]])

Entry(field, text) == Obj(Key(field) :> Str(text))

ExampleEmail == Str(<<"a", "@", "b", ".", "c", "o", "n">>)

RenderRecords ==
    { MakeRecord(f) : f \in
        [ name : {Str(<<"a", "l">>)},
          phone : {Absent, EmptyStr, Str(<<"1", "0">>)},
          email : {Absent, EmptyStr, ExampleEmail},
          linkedin : {Absent, EmptyStr, Str(<<"l", "i", "n">>)},
          summary : {Absent, EmptyStr, Str(<<"a", " ", "b">>)},
          skills : {Arr(<<>>), Arr(<<Str(<<"p">>)>>)},
          certifications : {Absent, Arr(<<>>),
                            Arr(<<Entry("name", <<"c">>), Entry("issuer", <<"i">>)>>)},
          education : {Absent, Arr(<<Entry("degree", <<"b">>)>>)},
          experience : {Absent, Arr(<<>>),
                        Arr(<<Obj((Key("job_title") :> Str(<<"j">>))
                                  @@ (Key("Description") :>
                                          Arr(<<Str(<<"a">>), Str(<<"b">>)>>)))>>),
                        Arr(<<Obj(Key("Description") :> Arr(<<EmptyStr>>))>>)},
          projects : {Arr(<<>>),
                      Arr(<<Obj((Key("project_name") :> Str(<<"p">>))
                                @@ (Key("content") :> Arr(<<Str(<<"c">>)>>))
                                @@ (Key("technologies") :> Str(<<"h">>)))>>)} ] }

\* a direct call create_formatted_docx(record, output_path) about to be made
InitCall(records) ==
    /\ pc = "call"
    /\ GEMINI_API_KEY = None
    /\ extracted = None
    /\ body = <<>>
    /\ response_text = <<>>
    /\ cleaned_response = <<>>
    /\ parsed_data \in records
    /\ safe_name = <<"o", "u", "l">>
    /\ doc = NoDocument
    /\ files = {}
    /\ calls = <<>>
    /\ printed = <<>>

Call_create_formatted_docx == pc = "call" /\ RenderCall("returned", "raised")

InitRender == InitCall(RenderRecords)

SpecRender == InitRender /\ [][Call_create_formatted_docx]_vars

\* the field is in the record and not empty
NonEmpty(field) ==
    Key(field) \in DOMAIN parsed_data.v /\ Truthy(parsed_data.v[Key(field)])

\* the texts of the blocks of the document that satisfy Test, in order
TextsOf(Test(_)) ==
    LET picked == SelectSeq(doc.body, Test)
    IN  [i \in 1..Len(picked) |-> picked[i].text]

IsHeading(b) == b.kind = "para" /\ b.style = "heading"

IsContactLine(b) == b.kind = "para" /\ b.align = "center" /\ b.size = 12

\* C8: the section headings come in the order Candidate Strengths, Skill
\* Matrix, Certifications, Education, Professional Experience, Projects; Skill
\* Matrix is always there, each other heading exactly when its field is
\* non-empty.
C8_SectionHeadingsInFixedOrder ==
    pc = "returned" =>
        LET sections == << <<"Candidate Strengths", "summary">>,
                           <<"Skill Matrix", "">>,
                           <<"Certifications", "certifications">>,
                           <<"Education", "education">>,
                           <<"Professional Experience", "experience">>,
                           <<"Projects", "projects">> >>
            Rendered(sec) == sec[2] = "" \/ NonEmpty(sec[2])
            expected == SelectSeq(sections, Rendered)
        IN  TextsOf(IsHeading) = [i \in 1..Len(expected) |-> <<expected[i][1]>>]

C8_Witness_EmptySummary ==
    /\ pc = "returned"
    /\ Key("summary") \in DOMAIN parsed_data.v
    /\ parsed_data.v[Key("summary")] = EmptyStr
    /\ NonEmpty("certifications") /\ NonEmpty("projects")
    /\ \A i \in 1..Len(doc.body) : doc.body[i].text # <<"Candidate Strengths">>

\* C9: the contact lines are one centered line for each non-empty value among
\* phone, email, linkedin, in that order, each holding that value alone; an
\* empty or absent value gives no line.
C9_OneContactLinePerNonEmptyValue ==
    pc = "returned" =>
        LET Value(field) == IF NonEmpty(field) THEN parsed_data.v[Key(field)].v ELSE <<>>
            IsText(t) == t # <<>>
        IN  TextsOf(IsContactLine)
              = SelectSeq(<<Value("phone"), Value("email"), Value("linkedin")>>, IsText)

C9_Witness_EmailOnly ==
    /\ pc = "returned"
    /\ Key("phone") \in DOMAIN parsed_data.v /\ parsed_data.v[Key("phone")] = EmptyStr
    /\ Key("linkedin") \in DOMAIN parsed_data.v /\ parsed_data.v[Key("linkedin")] = EmptyStr
    /\ NonEmpty("email") /\ parsed_data.v[Key("email")] = ExampleEmail
    /\ TextsOf(IsContactLine) = <<ExampleEmail.v>>

-----------------------------------------------------------------------------
(* create_formatted_docx called on records with skills and a skill matrix *)

\* longest skills_matrix and longest skills list enumerated
MaxMatrixLen == 15

MaxSkillsLen == 12

\* a text that differs for each i
TextNo(i) == [j \in 1..i |-> "a"]

\* the i-th matrix entry; every third one holds the skill name alone
MatrixEntry(i) ==
    IF i % 3 = 0 THEN Entry("skills", TextNo(i))
    ELSE Obj((Key("skills") :> Str(TextNo(i)))
             @@ (Key("years_experience") :> Str(<<"1">>))
             @@ (Key("last_used") :> Str(<<"1", "0">>))
             @@ (Key("proficiency") :> Str(<<"A">> \o TextNo(i))))

SkillRecords ==
    { MakeRecord(f) : f \in
        [ name : {Str(<<"a", "l">>)},
          skills_matrix :
              {Absent} \cup
              {Arr([i \in 1..n |-> MatrixEntry(i + off)]) :
                  n \in 0..MaxMatrixLen, off \in 0..1},
          skills :
              {Absent} \cup
              {Arr([i \in 1..n |-> Str(TextNo(i + off))]) :
                  n \in 0..MaxSkillsLen, off \in 0..1} ] }

InitSkill == InitCall(SkillRecords)

SpecSkill == InitSkill /\ [][Call_create_formatted_docx]_vars

IsTable(b) == b.kind = "table"

\* the data rows of the skill table of the document, <<>> without a table
DataRows ==
    LET tables == SelectSeq(doc.body, IsTable)
    IN  IF tables = <<>> THEN <<>> ELSE tables[1].rows

CellOf(entry, field) ==
    IF Key(field) \in DOMAIN entry.v THEN entry.v[Key(field)].v ELSE <<>>

Min(a, b) == IF a < b THEN a ELSE b

\* C7: a skills_matrix of n >= 1 entries gives exactly min(n, 10) data rows,
\* its first entries in order; an empty skills_matrix with non-empty skills
\* gives min(len(skills), 10) rows, the first skills in order with the other
\* three columns empty; both empty give no data row.
C7_SkillMatrixRows ==
    pc = "returned" =>
        LET matrix == IF NonEmpty("skills_matrix")
                      THEN parsed_data.v[Key("skills_matrix")].v ELSE <<>>
            skills == IF NonEmpty("skills") THEN parsed_data.v[Key("skills")].v ELSE <<>>
        IN  /\ Len(SelectSeq(doc.body, IsTable)) <= 1
            /\ Len(matrix) >= 1 =>
                  /\ Len(DataRows) = Min(Len(matrix), 10)
                  /\ \A i \in 1..Len(DataRows) :
                        DataRows[i] = <<CellOf(matrix[i], "skills"),
                                        CellOf(matrix[i], "years_experience"),
                                        CellOf(matrix[i], "last_used"),
                                        CellOf(matrix[i], "proficiency")>>
            /\ (Len(matrix) = 0 /\ Len(skills) >= 1) =>
                  /\ Len(DataRows) = Min(Len(skills), 10)
                  /\ \A i \in 1..Len(DataRows) :
                        DataRows[i] = <<skills[i].v, <<>>, <<>>, <<>>>>
            /\ (Len(matrix) = 0 /\ Len(skills) = 0) => DataRows = <<>>

C7_Witness_FifteenEntries ==
    /\ pc = "returned"
    /\ NonEmpty("skills_matrix")
    /\ Len(parsed_data.v[Key("skills_matrix")].v) = 15
    /\ Len(DataRows) = 10

====
